---- MODULE Spec2Model ----
(***************************************************************************)
(* lambda-http: the Adapter that wraps a Service<Request> so the runtime   *)
(* can drive it with LambdaEvent<LambdaRequest>, and the TransformResponse *)
(* future (State A = Request variant, State B = Response variant) that     *)
(* turns the handler's result into a LambdaResponse.                       *)
(* Source: src/lambda-http/src/lib.rs.  What request.rs, response.rs and   *)
(* ext.rs do behind the calls made here follows the design document.       *)
(***************************************************************************)
EXTENDS Integers, Sequences, FiniteSets, TLC

\* inv, ready  the adapter: its invocations and its readiness
\* ex          one request through the http-query-parameters example or
\*             through a handler of any response, down to the reply envelope
\* th          one run of the basic-s3-thumbnail handler
VARIABLES inv, ready, ex, th

vars == <<inv, ready, ex, th>>

\* How many times an inner future (the handler's work, the response
\* conversion) may answer Pending to a resumption of its own variant
\* before it has to complete.
MaxPend == 1

\* How many times a driver may resume a future that has already returned
\* Ready.
MaxRepoll == 1

\* The invocations in flight at the same time: two calls to the adapter,
\* each with its own future.
Invocations == {1, 2}

\* ------------------------------------------------------------------------
\* Data

\* RequestOrigin: the four trigger sources.
Origins == {"Alb", "ApiGatewayV1", "ApiGatewayV2", "WebSocket"}

ConnIds == {"k1", "k2"}

\* An incoming envelope: its structural shape (one of the origins, or a
\* shape no origin has), the socket connection id it carries, and whether
\* its body is flagged base64 and decodes.
Envelopes ==
    [shape : Origins \ {"WebSocket"}, connId : {"none"}, body : {"text", "badb64"}]
        \cup [shape : {"WebSocket"}, connId : ConnIds, body : {"text", "badb64"}]
        \cup [shape : {"Unknown"}, connId : {"none"}, body : {"text"}]

NoEnvelope == [shape |-> "none", connId |-> "none", body |-> "none"]

\* lambda_runtime::Context: one per invocation (it carries the request id).
ContextOf(i) == IF i = 1 THEN "ctx1" ELSE IF i = 2 THEN "ctx2" ELSE "ctx3"

\* Context::default()
DefaultContext == "ctx0"

\* What the handler can return, and what it can fail with.
Values == {"v1", "v2"}

Errors == {"e1", "e2"}

\* The attached context of the canonical request handed to the handler.
NoRequest == [origin |-> "none", ctx |-> "none", connId |-> "none"]

\* LambdaResponse, the reply envelope.
NoReply == [shape |-> "none", status |-> 0, body |-> "none", connectionId |-> "none"]

\* Poll<Result<LambdaResponse, E>> as last seen by the driver.
NoOutput == [kind |-> "None", reply |-> NoReply, error |-> "none"]

PollPending == [kind |-> "Pending", reply |-> NoReply, error |-> "none"]

ReadyOk(r) == [kind |-> "Ready", reply |-> r, error |-> "none"]

ReadyErr(e) == [kind |-> "Ready", reply |-> NoReply, error |-> e]

\* One invocation before the runtime has received its event.
\*   status, callret  how far the runtime got and what Adapter::call returned
\*   envelope, context  the payload and the context of the LambdaEvent
\*   failure  the invocation-level failure raised outside the future
\*   request  the attached context of the request the handler was called with
\*   state, origin  the TransformResponse variant and the tag it holds
\*   hfut, hval  the handler's future and what it completed with
\*   cfut, cval  the conversion future and the value it converts
\*   dtag, dctx  the tag and the context handed to from_response
\*   out  what the last poll returned
\*   log  the steps taken for this invocation, in order
Idle ==
    [status   |-> "idle",
     callret  |-> "none",
     envelope |-> NoEnvelope,
     context  |-> "none",
     failure  |-> "none",
     request  |-> NoRequest,
     state    |-> "None",
     origin   |-> "none",
     hfut     |-> "none",
     hval     |-> "none",
     cfut     |-> "none",
     cval     |-> "none",
     dtag     |-> "none",
     dctx     |-> NoRequest,
     out      |-> NoOutput,
     log      |-> << >>]

\* ------------------------------------------------------------------------
\* request.rs / response.rs

\* Deserialization of the payload into LambdaRequest: a closed match on the
\* envelope's shape.
Deserializes(env) == env.shape \in Origins

\* LambdaRequest::request_origin
request_origin(payload) == payload.shape

\* From<LambdaRequest> for http::Request<Body>: a flagged base64 body has to
\* decode.
Normalizes(payload) == payload.body # "badb64"

\* The canonical request of a payload, before the context is attached.
Into(payload) ==
    [origin |-> request_origin(payload), ctx |-> "none", connId |-> payload.connId]

\* IntoResponse::into_response, once its future has completed: a plain value
\* becomes a response with the default status.
IntoResponse(v) == [status |-> 200, body |-> v]

\* LambdaResponse::from_response(origin, resp): the envelope of that origin.
\* It is handed the tag and the response, nothing else.
from_response(o, resp) ==
    [shape |-> o, status |-> resp.status, body |-> resp.body, connectionId |-> "none"]

\* ------------------------------------------------------------------------
\* Results of one poll of an inner future

Count(s, e) == Cardinality({k \in DOMAIN s : s[k] = e})

HandlerResults ==
    {[kind |-> "Pending", val |-> "none"]}
        \cup [kind : {"Ok"}, val : Values]
        \cup [kind : {"Err"}, val : Errors]

ConvResults == {"Pending", "Ready"}

\* ------------------------------------------------------------------------
\* Adapter

\* Variant: the context of the event is not the one attached.
with_default_context(event, ctx) == [event EXCEPT !.ctx = DefaultContext]

\* RequestExt::with_lambda_context: the execution context is put into the
\* request's attached context.
with_lambda_context(event, ctx) == [event EXCEPT !.ctx = ctx]

\* Variant: the service is called before the context is attached.
call_service_first(s, payload, ctx) ==
    IF ~Normalizes(payload)
    THEN [s EXCEPT !.status   = "aborted",
                   !.envelope = payload,
                   !.context  = ctx,
                   !.failure  = "StructuralParseError"]
    ELSE [s EXCEPT !.status   = "called",
                   !.callret  = "future",
                   !.envelope = payload,
                   !.context  = ctx,
                   !.request  = with_lambda_context(Into(payload), ctx),
                   !.state    = "Request",
                   !.origin   = request_origin(payload),
                   !.hfut     = "pending",
                   !.log      = <<"normalize", "invoke", "attach">>]

\* Variant: the service is called whether or not the payload normalizes.
call_lenient(s, payload, ctx) ==
    [s EXCEPT !.status   = "called",
              !.callret  = "future",
              !.envelope = payload,
              !.context  = ctx,
              !.request  = with_lambda_context(Into(payload), ctx),
              !.state    = "Request",
              !.origin   = request_origin(payload),
              !.hfut     = "pending",
              !.log      = <<"normalize", "attach", "invoke">>]

\* Adapter::call.  The tag is taken from the payload, the payload is turned
\* into the canonical request, the context is attached and the wrapped
\* service is called with it; the future starts in the Request variant
\* holding the tag.  The return type is the future: there is no error to
\* return, so a payload that does not normalize ends the call before the
\* service is reached and nothing comes back.
call(s, payload, ctx) ==
    IF ~Normalizes(payload)
    THEN [s EXCEPT !.status   = "aborted",
                   !.envelope = payload,
                   !.context  = ctx,
                   !.failure  = "StructuralParseError"]
    ELSE [s EXCEPT !.status   = "called",
                   !.callret  = "future",
                   !.envelope = payload,
                   !.context  = ctx,
                   !.request  = with_lambda_context(Into(payload), ctx),
                   !.state    = "Request",
                   !.origin   = request_origin(payload),
                   !.hfut     = "pending",
                   !.log      = <<"normalize", "attach", "invoke">>]

\* The runtime cannot build a LambdaRequest from the payload: the adapter
\* is not called at all.
reject(s, env, ctx) ==
    [s EXCEPT !.status   = "rejected",
              !.envelope = env,
              !.context  = ctx,
              !.failure  = "StructuralParseError"]

\* Variant: always ready.
poll_ready_always(r) == "Ready"

\* Adapter::poll_ready: the wrapped service's answer.
poll_ready(r) == r

Readiness == {"Ready", "ReadyErr", "Pending"}

\* ------------------------------------------------------------------------
\* TransformResponse

\* Variant: the Response variant starts from a fixed tag.
origin_default(o) == "Alb"

\* origin.clone() on the way from the Request to the Response variant.
origin_clone(o) == o

\* Variant: the reply is completed from the request's attached context.
ResponseReady_with_context(s) ==
    [s EXCEPT !.cfut = "done",
              !.dtag = s.origin,
              !.dctx = s.request,
              !.out  = ReadyOk([from_response(s.origin, IntoResponse(s.cval))
                                  EXCEPT !.connectionId = s.request.connId]),
              !.log  = @ \o <<"cpoll", "denorm">>]

\* Variant: a ready conversion is answered with Pending and left alone.
ResponseReady_lost(s) == [s EXCEPT !.out = PollPending]

\* Variant: building the reply can fail.
ResponseReady_fallible(s) ==
    IF s.cval = "v2"
    THEN [s EXCEPT !.cfut = "done",
                   !.out  = ReadyErr("e1"),
                   !.log  = Append(@, "cpoll")]
    ELSE [s EXCEPT !.cfut = "done",
                   !.dtag = s.origin,
                   !.out  = ReadyOk(from_response(s.origin, IntoResponse(s.cval))),
                   !.log  = @ \o <<"cpoll", "denorm">>]

\* The Response arm, conversion ready: the reply is built by from_response
\* from the held tag and the response.
ResponseReady(s) ==
    [s EXCEPT !.cfut = "done",
              !.dtag = s.origin,
              !.out  = ReadyOk(from_response(s.origin, IntoResponse(s.cval))),
              !.log  = @ \o <<"cpoll", "denorm">>]

\* Variant: a pending conversion sends the future back to the handler.
ResponsePending_restart(s) ==
    [s EXCEPT !.state = "Request",
              !.hfut  = "pending",
              !.out   = PollPending,
              !.log   = Append(@, "cpoll")]

\* The Response arm, conversion pending.
ResponsePending(s) ==
    [s EXCEPT !.out = PollPending,
              !.log = Append(@, "cpoll")]

\* The Response arm of poll: advance the conversion.
PollResponse(s, cr) ==
    IF cr = "Ready" THEN ResponseReady(s) ELSE ResponsePending(s)

\* Variant: the new variant is left for the next poll.
RequestOk_yield(s, v, cr) ==
    [s EXCEPT !.state  = "Response",
              !.origin = origin_clone(s.origin),
              !.hfut   = "ok",
              !.hval   = v,
              !.cfut   = "pending",
              !.cval   = v,
              !.out    = PollPending,
              !.log    = @ \o <<"hpoll", "convert">>]

\* The Request arm, handler ready with a value: the future becomes the
\* Response variant, holding a copy of the tag and the value's conversion,
\* and is polled again at once.
RequestOk(s, v, cr) ==
    PollResponse([s EXCEPT !.state  = "Response",
                           !.origin = origin_clone(s.origin),
                           !.hfut   = "ok",
                           !.hval   = v,
                           !.cfut   = "pending",
                           !.cval   = v,
                           !.log    = @ \o <<"hpoll", "convert">>], cr)

\* Variant: a handler error is turned into a response to convert.
RequestErr_recover(s, e) ==
    [s EXCEPT !.state  = "Response",
              !.hfut   = "err",
              !.hval   = e,
              !.cfut   = "pending",
              !.cval   = "v1",
              !.out    = PollPending,
              !.log    = @ \o <<"hpoll", "convert">>]

\* The Request arm, handler ready with an error: ready with that error.
RequestErr(s, e) ==
    [s EXCEPT !.hfut = "err",
              !.hval = e,
              !.out  = ReadyErr(e),
              !.log  = Append(@, "hpoll")]

\* Variant: a pending handler loses the tag.
RequestPending_retag(s) ==
    [s EXCEPT !.origin = "Alb",
              !.out    = PollPending,
              !.log    = Append(@, "hpoll")]

\* The Request arm, handler pending.
RequestPending(s) ==
    [s EXCEPT !.out = PollPending,
              !.log = Append(@, "hpoll")]

\* The Request arm of poll: advance the handler's future.
PollRequest(s, hr, cr) ==
    CASE hr.kind = "Ok"  -> RequestOk(s, hr.val, cr)
      [] hr.kind = "Err" -> RequestErr(s, hr.val)
      [] OTHER           -> RequestPending(s)

\* Variant: a future that has completed answers Pending and polls nothing.
poll_fused(s, hr, cr) ==
    IF s.hfut = "err" \/ s.cfut = "done"
    THEN [s EXCEPT !.out = PollPending]
    ELSE IF s.state = "Request" THEN PollRequest(s, hr, cr) ELSE PollResponse(s, cr)

\* TransformResponse::poll
poll(s, hr, cr) ==
    IF s.state = "Request" THEN PollRequest(s, hr, cr) ELSE PollResponse(s, cr)

\* The inner future panics when polled: the poll does not return and the
\* future is dropped by the unwinding.
panic(s) ==
    [s EXCEPT !.status = "panicked",
              !.state  = "Dropped",
              !.origin = "none",
              !.cval   = "none",
              !.out    = NoOutput,
              !.log    = Append(@, IF s.state = "Request" THEN "hpoll" ELSE "cpoll")]

\* What an inner future that has completed may do when polled again: the
\* Future contract leaves it open (panic, Pending, Ready once more).
RepollOutcomes ==
    {[kind |-> "Panic", hr |-> [kind |-> "Pending", val |-> "none"], cr |-> "Pending"]}
        \cup [kind : {"Poll"}, hr : HandlerResults, cr : ConvResults]

\* TransformResponse::poll on a future that has returned Ready: the enum
\* keeps the variant and the inner future it completed in, and poll takes
\* the same match arm again.
repoll(s, o) ==
    LET t == [s EXCEPT !.log = Append(@, "repoll")]
    IN  IF o.kind = "Panic" THEN panic(t) ELSE poll(t, o.hr, o.cr)

\* Variant: dropping tells the handler.
drop_notify(s) ==
    [s EXCEPT !.state  = "Dropped",
              !.origin = "none",
              !.hfut   = IF @ = "pending" THEN "dropped" ELSE @,
              !.cfut   = IF @ = "pending" THEN "dropped" ELSE @,
              !.cval   = "none",
              !.log    = Append(@, "cancel")]

\* Dropping the future before it completed: the variant and the inner
\* future it owns are gone.  The type has no Drop of its own.
drop(s) ==
    [s EXCEPT !.state  = "Dropped",
              !.origin = "none",
              !.hfut   = IF @ = "pending" THEN "dropped" ELSE @,
              !.cfut   = IF @ = "pending" THEN "dropped" ELSE @,
              !.cval   = "none"]

\* Variant: the tag lives in one place shared by all futures.
UpdateShared(i, s) ==
    [j \in Invocations |->
        IF j = i THEN s
        ELSE IF inv[j].state \in {"Request", "Response"} /\ s.origin # "none"
             THEN [inv[j] EXCEPT !.origin = s.origin]
             ELSE inv[j]]

\* Every future owns its tag and its inner future: a step of one
\* invocation writes that invocation only.
Update(i, s) == [inv EXCEPT ![i] = s]

\* ------------------------------------------------------------------------
\* What an inner future may answer to the next poll

HandlerMay(s) ==
    IF s.state = "Request"
    THEN {hr \in HandlerResults :
            hr.kind = "Pending" => Count(s.log, "hpoll") < MaxPend}
    ELSE {[kind |-> "Pending", val |-> "none"]}

ConvMay(s, hr) ==
    IF s.state = "Request" /\ hr.kind # "Ok"
    THEN {"Ready"}
    ELSE {cr \in ConvResults :
            cr = "Pending" =>
                (IF s.state = "Request" THEN 0 ELSE Count(s.log, "cpoll")) <= MaxPend}

Live(s) == s.state \in {"Request", "Response"} /\ s.out.kind # "Ready"

\* ------------------------------------------------------------------------
\* Canonical response and reply envelope in full: headers and body bytes

\* Longest body, in bytes; most header writes; most query parameters.
MaxBody == 2

MaxHeaders == 2

MaxQuery == 2

SeqsUpTo(S, n) == UNION {[1..k -> S] : k \in 0..n}

\* Body bytes: 'H', 'i', the two bytes of U+00E9, and a byte no UTF-8 text
\* contains.
Bytes == {72, 105, 195, 169, 255}

Bodies == SeqsUpTo(Bytes, MaxBody)

HeaderNames == {"X", "Y"}

HeaderValues == {"a", "b"}

\* A response's headers in the order they were written.
HeaderWrites == SeqsUpTo(HeaderNames \X HeaderValues, MaxHeaders)

Statuses == {200, 404}

\* http::Response<Body>
Responses == [status : Statuses, headers : HeaderWrites, body : Bodies]

NoResponse == [status |-> 0, headers |-> << >>, body |-> << >>]

Cont(b) == 128 <= b /\ b <= 191

\* std::str::from_utf8(b).is_ok()
RECURSIVE ValidUtf8(_)
ValidUtf8(b) ==
    IF b = << >> THEN TRUE
    ELSE LET n == Len(b)
             c == b[1]
         IN  CASE c <= 127 -> ValidUtf8(SubSeq(b, 2, n))
               [] 194 <= c /\ c <= 223 ->
                     n >= 2 /\ Cont(b[2]) /\ ValidUtf8(SubSeq(b, 3, n))
               [] 224 <= c /\ c <= 239 ->
                     /\ n >= 3 /\ Cont(b[2]) /\ Cont(b[3])
                     /\ c = 224 => b[2] >= 160
                     /\ c = 237 => b[2] <= 159
                     /\ ValidUtf8(SubSeq(b, 4, n))
               [] 240 <= c /\ c <= 244 ->
                     /\ n >= 4 /\ Cont(b[2]) /\ Cont(b[3]) /\ Cont(b[4])
                     /\ c = 240 => b[2] >= 144
                     /\ c = 244 => b[2] <= 143
                     /\ ValidUtf8(SubSeq(b, 5, n))
               [] OTHER -> FALSE

\* The padding character, after the 64 of the alphabet (0..63).
Pad == 64

\* base64::encode, as indices into the alphabet.
RECURSIVE Base64Encode(_)
Base64Encode(b) ==
    LET n == Len(b)
    IN  CASE n = 0 -> << >>
          [] n = 1 -> <<b[1] \div 4, (b[1] % 4) * 16, Pad, Pad>>
          [] n = 2 -> <<b[1] \div 4, (b[1] % 4) * 16 + b[2] \div 16, (b[2] % 16) * 4, Pad>>
          [] OTHER -> <<b[1] \div 4,
                        (b[1] % 4) * 16 + b[2] \div 16,
                        (b[2] % 16) * 4 + b[3] \div 64,
                        b[3] % 64>> \o Base64Encode(SubSeq(b, 4, n))

\* base64::decode of well-formed input.
RECURSIVE Base64Decode(_)
Base64Decode(t) ==
    IF Len(t) < 4 THEN << >>
    ELSE LET b1 == t[1] * 4 + t[2] \div 16
             b2 == (t[2] % 16) * 16 + t[3] \div 4
             b3 == (t[3] % 4) * 64 + t[4]
         IN  CASE t[3] = Pad -> <<b1>>
               [] t[4] = Pad -> <<b1, b2>>
               [] OTHER      -> <<b1, b2, b3>> \o Base64Decode(SubSeq(t, 5, Len(t)))

\* The origins whose envelopes have multi-value headers.
SupportsMulti(o) == o \in {"Alb", "ApiGatewayV1"}

Names(h) == {h[k][1] : k \in DOMAIN h}

\* The values written for header n, in order.
RECURSIVE ValuesOf(_, _)
ValuesOf(h, n) ==
    IF h = << >> THEN << >>
    ELSE (IF h[1][1] = n THEN <<h[1][2]>> ELSE << >>) \o ValuesOf(Tail(h), n)

\* Variant: the first value written wins.
collapse_first(h) == [n \in Names(h) |-> ValuesOf(h, n)[1]]

\* Single-value headers: each name with the last value written for it.
collapse_headers(h) == [n \in Names(h) |-> ValuesOf(h, n)[Len(ValuesOf(h, n))]]

multi_value_headers(h) == [n \in Names(h) |-> ValuesOf(h, n)]

NoHeaders == [n \in {} |-> "none"]

\* Whether a body goes out base64-encoded: when it is not UTF-8 text.
body_is_base64(b) == ~ValidUtf8(b)

\* LambdaResponse::from_response(origin, resp) in full: the status, the
\* headers the origin can carry, and the body as text or base64 with the
\* flag that says which.
denormalize(o, resp) ==
    [shape             |-> o,
     statusCode        |-> resp.status,
     headers           |-> collapse_headers(resp.headers),
     hasMultiValue     |-> SupportsMulti(o),
     multiValueHeaders |-> IF SupportsMulti(o)
                           THEN multi_value_headers(resp.headers)
                           ELSE NoHeaders,
     isBase64Encoded   |-> body_is_base64(resp.body),
     body              |-> IF body_is_base64(resp.body)
                           THEN Base64Encode(resp.body)
                           ELSE resp.body]

NoEnvelopeOut ==
    [shape |-> "none", statusCode |-> 0, headers |-> NoHeaders,
     hasMultiValue |-> FALSE, multiValueHeaders |-> NoHeaders,
     isBase64Encoded |-> FALSE, body |-> << >>]

\* ------------------------------------------------------------------------
\* examples/http-query-parameters

\* "Hello, ", "!" and "Empty first name" in UTF-8.
HelloComma == <<72, 101, 108, 108, 111, 44, 32>>

Bang == <<33>>

EmptyFirstName ==
    <<69, 109, 112, 116, 121, 32, 102, 105, 114, 115, 116, 32, 110, 97, 109, 101>>

ParamNames == {"first_name", "last_name"}

\* Parameter values: "Foo", "Hi" and the one character U+00E9.
ParamValues == {<<70, 111, 111>>, <<72, 105>>, <<195, 169>>}

\* The query string parameters of a request, in order.
Queries == SeqsUpTo(ParamNames \X ParamValues, MaxQuery)

None == [some |-> FALSE, val |-> << >>]

Some(v) == [some |-> TRUE, val |-> v]

\* QueryMap::first: the first value of the parameter, if it has one.
first(q, name) ==
    IF \E k \in DOMAIN q : q[k][1] = name
    THEN Some(q[CHOOSE k \in DOMAIN q :
                  /\ q[k][1] = name
                  /\ \A m \in DOMAIN q : q[m][1] = name => k <= m][2])
    ELSE None

\* IntoResponse for String: the text as the body of a response with the
\* default status.
into_response_str(text) == [status |-> 200, headers |-> << >>, body |-> text]

\* Variant: the greeting of the crate documentation, with a default name.
function_handler_stranger(q) ==
    [ok   |-> TRUE,
     resp |-> into_response_str(HelloComma \o
                 (IF first(q, "first_name").some
                  THEN first(q, "first_name").val
                  ELSE <<115, 116, 114, 97, 110, 103, 101, 114>>) \o Bang)]

\* function_handler of the example: the result is always Ok.
function_handler(q) ==
    LET first_name == first(q, "first_name")
    IN  [ok   |-> TRUE,
         resp |-> IF first_name.some
                  THEN into_response_str(HelloComma \o first_name.val \o Bang)
                  ELSE [status |-> 400, headers |-> << >>, body |-> EmptyFirstName]]

\* One request on its way through a handler to its reply envelope.
\*   handler  "query" for the example's handler, "any" for any response
\*   origin, reqB64  the origin of the request and its own base64 flag
ExIdle ==
    [pc      |-> "idle",
     handler |-> "none",
     origin  |-> "none",
     reqB64  |-> FALSE,
     query   |-> << >>,
     ok      |-> FALSE,
     resp    |-> NoResponse,
     reply   |-> NoEnvelopeOut]

ExRequests ==
    [pc : {"request"}, handler : {"query"}, origin : Origins, reqB64 : BOOLEAN,
     query : Queries, ok : {FALSE}, resp : {NoResponse}, reply : {NoEnvelopeOut}]
        \cup
    [pc : {"request"}, handler : {"any"}, origin : Origins, reqB64 : BOOLEAN,
     query : {<< >>}, ok : {FALSE}, resp : {NoResponse}, reply : {NoEnvelopeOut}]

\* Variant: the reply's flag is the request's.
deliver_inherit(e) ==
    [e EXCEPT !.pc    = "done",
              !.reply = [denormalize(e.origin, e.resp)
                           EXCEPT !.isBase64Encoded = e.reqB64]]

\* The reply of a completed conversion: from_response of the tag and the
\* response.
deliver(e) ==
    [e EXCEPT !.pc    = "done",
              !.reply = denormalize(e.origin, e.resp)]

\* ------------------------------------------------------------------------
\* examples/basic-s3-thumbnail

\* Most records in one event.
MaxRecords == 2

NoStr == [some |-> FALSE, val |-> ""]

SomeStr(v) == [some |-> TRUE, val |-> v]

EventNames == {"ObjectCreated:Put", "ObjectRemoved:Delete"}

BucketNames == {"", "b1", "b2"}

ObjectKeys == {"", "k1"}

\* S3EventRecord: the three optional fields the handler reads.
S3Records ==
    [event_name : {NoStr} \cup {SomeStr(n) : n \in EventNames},
     bucket     : {NoStr} \cup {SomeStr(b) : b \in BucketNames},
     key        : {NoStr} \cup {SomeStr(k) : k \in ObjectKeys}]

\* str::starts_with
starts_with(str, prefix) ==
    Len(str) >= Len(prefix) /\ SubSeq(str, 1, Len(prefix)) = prefix

\* Option::filter
filter(opt, keep) == IF opt.some /\ keep THEN opt ELSE NoStr

\* get_file_props: Err for a record that is no object creation or lacks a
\* non-empty bucket name or object key, else the bucket and the key.
get_file_props(record) ==
    IF ~filter(record.event_name,
               starts_with(record.event_name.val, "ObjectCreated")).some
    THEN [ok |-> FALSE, bucket |-> "", key |-> "", msg |-> "Wrong event"]
    ELSE IF ~filter(record.bucket, record.bucket.val # "").some
    THEN [ok |-> FALSE, bucket |-> "", key |-> "", msg |-> "No bucket name"]
    ELSE IF ~filter(record.key, record.key.val # "").some
    THEN [ok |-> FALSE, bucket |-> "", key |-> "", msg |-> "No object key"]
    ELSE [ok |-> TRUE, bucket |-> record.bucket.val, key |-> record.key.val,
          msg |-> ""]

\* One run of function_handler.
\*   pc  "loop" at the head of the for loop, "get", "thumb", "put" before
\*       the step of that name for the current record, "done" after return
\*   records, idx  the event's records and how many of them are finished
\*   bucket, key  the properties of the current record
\*   gets, puts  the get_file and put_file calls made, in order
\*   outcome  how each finished record ended
ThIdle ==
    [pc      |-> "idle",
     records |-> << >>,
     idx     |-> 0,
     bucket  |-> "",
     key     |-> "",
     gets    |-> << >>,
     puts    |-> << >>,
     outcome |-> << >>,
     result  |-> "none"]

\* continue: the current record is finished, on to the next.
continue(t, how) ==
    [t EXCEPT !.pc      = "loop",
              !.idx     = @ + 1,
              !.bucket  = "",
              !.key     = "",
              !.outcome = Append(@, how)]

\* The head of the loop body: the next record's properties.
next_record(t) ==
    LET props == get_file_props(t.records[t.idx + 1])
    IN  IF props.ok
        THEN [t EXCEPT !.pc = "get", !.bucket = props.bucket, !.key = props.key]
        ELSE continue(t, "skipped")

\* Variant: a failed download ends the handler with the error.
get_file_abort(t, ok) ==
    IF ok
    THEN [t EXCEPT !.pc = "thumb", !.gets = Append(@, <<t.bucket, t.key>>)]
    ELSE [t EXCEPT !.pc = "done", !.result = "Err",
                   !.gets = Append(@, <<t.bucket, t.key>>)]

\* client.get_file(&bucket, &key)
get_file(t, ok) ==
    IF ok
    THEN [t EXCEPT !.pc = "thumb", !.gets = Append(@, <<t.bucket, t.key>>)]
    ELSE continue([t EXCEPT !.gets = Append(@, <<t.bucket, t.key>>)], "get_failed")

\* get_thumbnail(image, size)
get_thumbnail(t, ok) ==
    IF ok THEN [t EXCEPT !.pc = "put"] ELSE continue(t, "thumb_failed")

\* Variant: the thumbnail goes to the bucket the image came from.
put_file_same_bucket(t, ok) ==
    continue([t EXCEPT !.puts = Append(@, <<t.bucket, t.key>>)],
             IF ok THEN "uploaded" ELSE "put_failed")

\* client.put_file(&thumbs_bucket, &key, thumbnail), the bucket name
\* suffixed with "-thumbs".
put_file(t, ok) ==
    LET thumbs_bucket == t.bucket \o "-thumbs"
    IN  continue([t EXCEPT !.puts = Append(@, <<thumbs_bucket, t.key>>)],
                 IF ok THEN "uploaded" ELSE "put_failed")

\* Ok(()) after the last record.
finish(t) == [t EXCEPT !.pc = "done", !.result = "Ok"]

\* ------------------------------------------------------------------------
\* Actions

Init ==
    /\ inv = [i \in Invocations |-> Idle]
    /\ ready = [svc |-> "none", adapter |-> "none"]
    /\ ex = ExIdle
    /\ th = ThIdle

\* The runtime receives an event for invocation i and, when the payload is
\* a LambdaRequest, calls the adapter with it.
Invoke(i) ==
    /\ inv[i].status = "idle"
    /\ \E env \in Envelopes :
          inv' = Update(i, IF Deserializes(env)
                           THEN call(inv[i], env, ContextOf(i))
                           ELSE reject(inv[i], env, ContextOf(i)))
    /\ UNCHANGED <<ready, ex, th>>

\* The driver resumes the future of invocation i.
Poll(i) ==
    /\ Live(inv[i])
    /\ \E hr \in HandlerMay(inv[i]) :
          \E cr \in ConvMay(inv[i], hr) :
              inv' = Update(i, poll(inv[i], hr, cr))
    /\ UNCHANGED <<ready, ex, th>>

\* The driver gives up on invocation i and drops its future.
Drop(i) ==
    /\ Live(inv[i])
    /\ inv' = Update(i, drop(inv[i]))
    /\ UNCHANGED <<ready, ex, th>>

\* The runtime asks the adapter whether it is ready.
PollReady ==
    /\ \E r \in Readiness :
          ready' = [svc |-> r, adapter |-> poll_ready(r)]
    /\ UNCHANGED <<inv, ex, th>>

Next ==
    \/ \E i \in Invocations : Invoke(i)
    \/ \E i \in Invocations : Poll(i)
    \/ \E i \in Invocations : Drop(i)
    \/ PollReady

Spec == Init /\ [][Next]_vars

\* ------------------------------------------------------------------------
\* A driver that resumes completed futures

\* The driver resumes the future of invocation i after it returned Ready.
Repoll(i) ==
    /\ inv[i].state \in {"Request", "Response"}
    /\ inv[i].out.kind = "Ready"
    /\ Count(inv[i].log, "repoll") < MaxRepoll
    /\ \E o \in RepollOutcomes : inv' = Update(i, repoll(inv[i], o))
    /\ UNCHANGED <<ready, ex, th>>

\* One invocation is enough here: a step writes its own invocation only.
NextRepoll ==
    \/ Invoke(1)
    \/ Poll(1)
    \/ Repoll(1)

SpecRepoll == Init /\ [][NextRepoll]_vars

\* ------------------------------------------------------------------------
\* A driver that keeps resuming: lambda_runtime::run awaits every future
\* it got from the adapter and never drops it.

NextFair ==
    \/ \E i \in Invocations : Invoke(i)
    \/ \E i \in Invocations : Poll(i)

SpecFair ==
    /\ Init
    /\ [][NextFair]_vars
    /\ \A i \in Invocations : WF_vars(Poll(i))

\* ------------------------------------------------------------------------
\* One request through a handler and the denormalizer

InitHttp ==
    /\ inv = [i \in Invocations |-> Idle]
    /\ ready = [svc |-> "none", adapter |-> "none"]
    /\ ex \in ExRequests
    /\ th = ThIdle

\* The example's handler answers the request.
RunQueryHandler ==
    /\ ex.pc = "request" /\ ex.handler = "query"
    /\ LET r == function_handler(ex.query)
       IN  ex' = [ex EXCEPT !.pc = "response", !.ok = r.ok, !.resp = r.resp]
    /\ UNCHANGED <<inv, ready, th>>

\* A handler answers the request with some response.
RunAnyHandler ==
    /\ ex.pc = "request" /\ ex.handler = "any"
    /\ \E resp \in Responses :
          ex' = [ex EXCEPT !.pc = "response", !.ok = TRUE, !.resp = resp]
    /\ UNCHANGED <<inv, ready, th>>

\* The conversion is complete and the reply is built.
Deliver ==
    /\ ex.pc = "response" /\ ex.ok
    /\ ex' = deliver(ex)
    /\ UNCHANGED <<inv, ready, th>>

NextHttp ==
    \/ RunQueryHandler
    \/ RunAnyHandler
    \/ Deliver

SpecHttp == InitHttp /\ [][NextHttp]_vars

\* ------------------------------------------------------------------------
\* One run of the thumbnail handler

InitThumb ==
    /\ inv = [i \in Invocations |-> Idle]
    /\ ready = [svc |-> "none", adapter |-> "none"]
    /\ ex = ExIdle
    /\ \E records \in SeqsUpTo(S3Records, MaxRecords) :
          th = [ThIdle EXCEPT !.pc = "loop", !.records = records]

NextRecord ==
    /\ th.pc = "loop" /\ th.idx < Len(th.records)
    /\ th' = next_record(th)
    /\ UNCHANGED <<inv, ready, ex>>

GetFile ==
    /\ th.pc = "get"
    /\ \E ok \in BOOLEAN : th' = get_file(th, ok)
    /\ UNCHANGED <<inv, ready, ex>>

GetThumbnail ==
    /\ th.pc = "thumb"
    /\ \E ok \in BOOLEAN : th' = get_thumbnail(th, ok)
    /\ UNCHANGED <<inv, ready, ex>>

PutFile ==
    /\ th.pc = "put"
    /\ \E ok \in BOOLEAN : th' = put_file(th, ok)
    /\ UNCHANGED <<inv, ready, ex>>

Return ==
    /\ th.pc = "loop" /\ th.idx = Len(th.records)
    /\ th' = finish(th)
    /\ UNCHANGED <<inv, ready, ex>>

NextThumb ==
    \/ NextRecord
    \/ GetFile
    \/ GetThumbnail
    \/ PutFile
    \/ Return

SpecThumb == InitThumb /\ [][NextThumb]_vars

\* ------------------------------------------------------------------------
\* Properties

Has(s, e) == Count(s.log, e) > 0

Replied(s) == s.out.kind = "Ready" /\ s.out.reply # NoReply

Failed(s) == s.out.kind = "Ready" /\ s.out.error # "none"

\* C1: the tag held in the Request variant, the tag held in the Response
\* variant and the tag handed to from_response are all the origin of the
\* incoming envelope, whatever the handler and the conversion do; the
\* reply has the shape of that origin.
C1_OriginCarried ==
    \A i \in Invocations :
        LET s == inv[i]
        IN  /\ s.state \in {"Request", "Response"} =>
                  s.origin = request_origin(s.envelope)
            /\ Has(s, "denorm") =>
                  /\ s.dtag = request_origin(s.envelope)
                  /\ Replied(s)
                  /\ s.out.reply.shape = request_origin(s.envelope)

\* A gateway-v2 invocation has replied after pending polls in both states.
C1_Witness ==
    \E i \in Invocations :
        /\ inv[i].envelope.shape = "ApiGatewayV2"
        /\ Replied(inv[i])
        /\ inv[i].dtag = "ApiGatewayV2"
        /\ Count(inv[i].log, "hpoll") = MaxPend + 1
        /\ Count(inv[i].log, "cpoll") = MaxPend + 1

\* The phase a logged step belongs to.
Phase(e) ==
    CASE e \in {"normalize", "attach"} -> 1
      [] e \in {"invoke", "hpoll"}     -> 2
      [] e \in {"convert", "cpoll"}    -> 3
      [] e = "denorm"                  -> 4
      [] OTHER                         -> 0

\* C2: within one invocation no step of an earlier phase comes after a step
\* of a later phase (normalization with the context attached, then the
\* handler, then the response conversion, then denormalization), and each
\* phase is entered at most once.
C2_PhasesInOrder ==
    \A i \in Invocations :
        LET l == inv[i].log
        IN  /\ \A a, b \in DOMAIN l : a < b => Phase(l[a]) <= Phase(l[b])
            /\ \A e \in {"normalize", "attach", "invoke", "convert", "denorm"} :
                  Count(l, e) <= 1
            /\ \A k \in DOMAIN l : Phase(l[k]) > 0

\* An invocation went through all four phases, the last two in one
\* resumption, next to one that pended in every state.
C2_Witness ==
    \E i, j \in Invocations :
        /\ inv[i].log = <<"normalize", "attach", "invoke", "hpoll", "convert", "cpoll", "denorm">>
        /\ Has(inv[j], "denorm")
        /\ Len(inv[j].log) = 7 + 2 * MaxPend

\* C3: when the handler's future completes with an error, the poll that
\* saw it is ready with exactly that error; the future stays in the Request
\* variant, no conversion is started and from_response is not applied.
C3_ErrorPropagated ==
    \A i \in Invocations :
        LET s == inv[i]
        IN  s.hfut = "err" =>
              /\ s.hval \in Errors
              /\ s.out = ReadyErr(s.hval)
              /\ s.state = "Request"
              /\ s.cfut = "none"
              /\ ~Has(s, "convert") /\ ~Has(s, "cpoll") /\ ~Has(s, "denorm")
              /\ s.log[Len(s.log)] = "hpoll"

\* The handler failed with e2 after pending.
C3_Witness ==
    \E i \in Invocations :
        /\ inv[i].hfut = "err"
        /\ inv[i].out.error = "e2"
        /\ Count(inv[i].log, "hpoll") = MaxPend + 1

Unnormalizable(env) ==
    env # NoEnvelope /\ ~(Deserializes(env) /\ Normalizes(env))

\* C4 as stated: for an envelope that cannot be normalized Adapter::call
\* returns an error and the handler is not invoked.
C4_CallReportsError ==
    \A i \in Invocations :
        Unnormalizable(inv[i].envelope) =>
            inv[i].callret = "error" /\ ~Has(inv[i], "invoke")

\* C4: for an envelope that cannot be normalized the invocation fails with
\* a structural parse error raised outside any return value of
\* Adapter::call (the call is not made, or does not return), no future
\* exists and the handler is not invoked; a call that returns has returned
\* the future in the Request variant, with the handler invoked.
C4_FailsBeforeHandler ==
    \A i \in Invocations :
        LET s == inv[i]
        IN  /\ Unnormalizable(s.envelope) =>
                  /\ s.failure = "StructuralParseError"
                  /\ s.status \in {"rejected", "aborted"}
                  /\ s.callret = "none"
                  /\ s.state = "None"
                  /\ s.hfut = "none"
                  /\ s.log = << >>
            /\ s.callret \in {"none", "future"}
            /\ s.callret = "future" => Has(s, "invoke") /\ s.failure = "none"

\* One invocation had an envelope of no known shape, the other a flagged
\* body that does not decode.
C4_Witness ==
    \E i, j \in Invocations :
        /\ inv[i].status = "rejected"
        /\ inv[i].envelope.shape = "Unknown"
        /\ inv[j].status = "aborted"
        /\ inv[j].envelope.body = "badb64"

\* C5: a completed future is ready with a reply or with an error, never
\* both and never neither; nothing is delivered before completion; and a
\* future in the Response variant completes with a reply only.
C5_OneOutcome ==
    \A i \in Invocations :
        LET s == inv[i]
        IN  /\ s.out.kind = "Ready" => (Replied(s) # Failed(s))
            /\ s.out.kind # "Ready" => s.out.reply = NoReply /\ s.out.error = "none"
            /\ (s.out.kind = "Ready" /\ (s.state = "Response" \/ Has(s, "convert"))) =>
                  Replied(s) /\ ~Failed(s)
            /\ Failed(s) => s.out.error \in Errors

\* One invocation completed with a reply from the Response variant, the
\* other with an error.
C5_Witness ==
    \E i, j \in Invocations :
        /\ Replied(inv[i]) /\ inv[i].state = "Response" /\ inv[i].cval = "v2"
        /\ Failed(inv[j])

\* C6: a readiness check returns what the wrapped service's readiness check
\* returned and touches no invocation.
C6_ReadinessForwarded ==
    [][ready' # ready => (ready'.adapter = ready'.svc /\ inv' = inv)]_vars

\* The service was not ready, and not ready with an error, while a future
\* was in flight.
C6_Witness ==
    /\ ready.svc \in {"Pending", "ReadyErr"}
    /\ ready.adapter = ready.svc
    /\ \E i \in Invocations : Live(inv[i])

\* What invocation i is determined by: its own envelope and what its own
\* handler and conversion answered.
OwnOutcome(i) ==
    LET s == inv[i]
    IN  /\ s.origin \in {"none", request_origin(s.envelope)}
        /\ s.context \in {"none", ContextOf(i)}
        /\ Replied(s) =>
              s.out.reply = from_response(request_origin(s.envelope), IntoResponse(s.hval))
        /\ Failed(s) => s.out.error = s.hval

\* C7: a step of one invocation (call, resumption, completion, drop)
\* leaves every other invocation as it was, and the tag, state and outcome
\* of an invocation are those of its own envelope and its own handler's
\* answer.
C7_Independent ==
    /\ [](\A i \in Invocations : OwnOutcome(i))
    /\ [][\A i, j \in Invocations :
             (i # j /\ inv'[i] # inv[i]) => inv'[j] = inv[j]]_vars

\* Two invocations of different origins: one replied, the other was
\* dropped in the Response variant.
C7_Witness ==
    \E i, j \in Invocations :
        /\ Replied(inv[i])
        /\ inv[j].state = "Dropped" /\ Has(inv[j], "convert")
        /\ inv[i].envelope.shape # inv[j].envelope.shape

\* C8: a dropped future holds nothing and is never changed again: no poll
\* of the handler or of the conversion, no from_response, no reply and no
\* error; the drop itself takes no step towards the handler.
C8_DroppedIsInert ==
    /\ [](\A i \in Invocations :
            inv[i].state = "Dropped" =>
                /\ inv[i].out.kind # "Ready"
                /\ inv[i].origin = "none"
                /\ inv[i].hfut # "pending" /\ inv[i].cfut # "pending"
                /\ ~Has(inv[i], "denorm") /\ ~Has(inv[i], "cancel"))
    /\ [][\A i \in Invocations :
            /\ inv[i].state = "Dropped" => inv'[i] = inv[i]
            /\ inv'[i].state = "Dropped" =>
                  inv'[i].log = inv[i].log /\ inv'[i].out = inv[i].out]_vars

\* One future was dropped in the Request variant and the other in the
\* Response variant, both after a pending poll.
C8_Witness ==
    \E i, j \in Invocations :
        /\ inv[i].state = "Dropped" /\ inv[i].hfut = "dropped" /\ Has(inv[i], "hpoll")
        /\ inv[j].state = "Dropped" /\ inv[j].cfut = "dropped"

\* C9 as stated: from_response is applied with the carried tag and the
\* context captured at normalization, and the connection id of a socket
\* reply is the one of the incoming envelope.
C9_ContextUsed ==
    \A i \in Invocations :
        Has(inv[i], "denorm") =>
            /\ inv[i].dtag = inv[i].request.origin
            /\ inv[i].dctx = inv[i].request
            /\ inv[i].out.reply.connectionId = inv[i].envelope.connId

\* C9: when the conversion completes in the Response variant, from_response
\* is applied in that poll to the carried tag and the converted response
\* and to nothing else: the tag is the one recorded from the envelope, no
\* captured context is handed over, and two replies of the same origin and
\* the same response are equal whatever connection ids the envelopes had.
C9_TagAndResponseOnly ==
    \A i \in Invocations :
        Has(inv[i], "denorm") =>
            /\ inv[i].cfut = "done"
            /\ inv[i].dtag = inv[i].request.origin
            /\ inv[i].dctx = NoRequest
            /\ inv[i].out = ReadyOk(from_response(inv[i].dtag, IntoResponse(inv[i].cval)))
            /\ \A j \in Invocations :
                  (/\ Has(inv[j], "denorm")
                   /\ inv[j].dtag = inv[i].dtag
                   /\ inv[j].cval = inv[i].cval) => inv[j].out = inv[i].out

\* Two socket invocations with different connection ids replied to the
\* same response.
C9_Witness ==
    \E i, j \in Invocations :
        /\ Replied(inv[i]) /\ Replied(inv[j])
        /\ inv[i].envelope.shape = "WebSocket" /\ inv[j].envelope.shape = "WebSocket"
        /\ inv[i].envelope.connId # inv[j].envelope.connId
        /\ inv[i].cval = inv[j].cval

Before(l, a, b) ==
    \E m, n \in DOMAIN l : m < n /\ l[m] = a /\ l[n] = b

\* C10: the attached context is written once, after normalization and
\* before the handler is invoked; it holds the tag, the context the caller
\* supplied with the envelope and the envelope's metadata; no later step
\* changes it.
C10_ContextAttachedOnce ==
    /\ [](\A i \in Invocations :
            LET s == inv[i]
            IN  /\ Count(s.log, "attach") <= 1
                /\ Has(s, "invoke") =>
                      /\ Before(s.log, "normalize", "attach")
                      /\ Before(s.log, "attach", "invoke")
                      /\ s.request = [origin |-> request_origin(s.envelope),
                                      ctx    |-> ContextOf(i),
                                      connId |-> s.envelope.connId]
                /\ ~Has(s, "invoke") => s.request = NoRequest)
    /\ [][\A i \in Invocations :
            inv[i].request # NoRequest =>
                /\ inv'[i].request = inv[i].request
                /\ Count(inv'[i].log, "attach") = Count(inv[i].log, "attach")]_vars

\* The handler of the second invocation was called with that invocation's
\* context and the future went on to reply.
C10_Witness ==
    \E i \in Invocations :
        /\ inv[i].request.ctx = "ctx2"
        /\ inv[i].request.connId = "k2"
        /\ Replied(inv[i])

\* A position of the first value of parameter name in query q.
FirstAt(q, name, k) ==
    /\ k \in DOMAIN q
    /\ q[k][1] = name
    /\ \A m \in DOMAIN q : m < k => q[m][1] # name

\* C11: the example's handler always returns Ok; with a first_name
\* parameter of (first) value V the response has status 200 and body
\* "Hello, V!", and its gateway-v2 reply has status 200, that body as plain
\* text and the base64 flag false; without the parameter the response has
\* status 400 and body "Empty first name".
C11_QueryGreeting ==
    (ex.handler = "query" /\ ex.pc \in {"response", "done"}) =>
        /\ ex.ok
        /\ \A k \in DOMAIN ex.query :
              FirstAt(ex.query, "first_name", k) =>
                  /\ ex.resp.status = 200
                  /\ ex.resp.body = HelloComma \o ex.query[k][2] \o Bang
                  /\ (ex.pc = "done" /\ ex.origin = "ApiGatewayV2") =>
                        /\ ex.reply.statusCode = 200
                        /\ ex.reply.body = HelloComma \o ex.query[k][2] \o Bang
                        /\ ex.reply.isBase64Encoded = FALSE
        /\ (\A k \in DOMAIN ex.query : ex.query[k][1] # "first_name") =>
              /\ ex.resp.status = 400
              /\ ex.resp.body = EmptyFirstName

\* A gateway-v2 request with first_name=Foo after another parameter got
\* the reply "Hello, Foo!".
C11_Witness ==
    /\ ex.pc = "done" /\ ex.handler = "query" /\ ex.origin = "ApiGatewayV2"
    /\ Len(ex.query) = 2
    /\ ex.query[1][1] = "last_name"
    /\ ex.query[2] = <<"first_name", <<70, 111, 111>>>>
    /\ ex.reply.body = <<72, 101, 108, 108, 111, 44, 32, 70, 111, 111, 33>>
    /\ ex.reply.statusCode = 200

\* C12: for an origin without multi-value headers the reply has, for every
\* header written, exactly the last value written for it and no other
\* header, and it has no multi-value header field at all.
C12_LastHeaderWins ==
    (ex.pc = "done" /\ ex.origin \in {"ApiGatewayV2", "WebSocket"}) =>
        LET h == ex.resp.headers
        IN  /\ DOMAIN ex.reply.headers = {h[k][1] : k \in DOMAIN h}
            /\ \A k \in DOMAIN h :
                  (\A m \in DOMAIN h : m > k => h[m][1] # h[k][1]) =>
                      ex.reply.headers[h[k][1]] = h[k][2]
            /\ ex.reply.hasMultiValue = FALSE
            /\ ex.reply.multiValueHeaders = NoHeaders

\* X was written as a and then as b; the gateway-v2 reply has X: b.
C12_Witness ==
    /\ ex.pc = "done" /\ ex.origin = "ApiGatewayV2"
    /\ ex.resp.headers = <<(<<"X", "a">>), (<<"X", "b">>)>>
    /\ ex.reply.headers["X"] = "b"

\* UTF-8 text over the bytes of the model: 'H', 'i' and U+00E9 as its two
\* bytes in order.
IsText(b) ==
    \A k \in DOMAIN b :
        /\ b[k] # 255
        /\ b[k] = 195 => (k < Len(b) /\ b[k + 1] = 169)
        /\ b[k] = 169 => (k > 1 /\ b[k - 1] = 195)

\* C13: the reply's base64 flag is true exactly when the response body is
\* not UTF-8 text, whatever the request's own flag was; a flagged body
\* decodes to the response's bytes and an unflagged body is those bytes.
C13_FlagFromContent ==
    ex.pc = "done" =>
        /\ ex.reply.isBase64Encoded = ~IsText(ex.resp.body)
        /\ ex.reply.isBase64Encoded =>
              /\ Base64Decode(ex.reply.body) = ex.resp.body
              /\ Len(ex.reply.body) = 4 * ((Len(ex.resp.body) + 2) \div 3)
              /\ \A k \in DOMAIN ex.reply.body : ex.reply.body[k] \in 0..Pad
        /\ ~ex.reply.isBase64Encoded => ex.reply.body = ex.resp.body

\* A request not flagged base64 got a flagged reply for a two-byte body
\* that is no text.
C13_Witness ==
    /\ ex.pc = "done"
    /\ ex.reqB64 = FALSE
    /\ ex.resp.body = <<255, 105>>
    /\ ex.reply.isBase64Encoded
    /\ ex.reply.body = <<63, 54, 36, 64>>

\* A record the handler works on: an object creation with a bucket name
\* and an object key, both non-empty.
Eligible(r) ==
    /\ r.event_name = SomeStr("ObjectCreated:Put")
    /\ r.bucket \in {SomeStr("b1"), SomeStr("b2")}
    /\ r.key = SomeStr("k1")

ThumbsOf(b) == IF b = "b1" THEN "b1-thumbs" ELSE IF b = "b2" THEN "b2-thumbs" ELSE "none"

\* The uploads due for the first n records, given how each ended.
RECURSIVE UploadsDue(_, _, _)
UploadsDue(records, outcome, n) ==
    IF n = 0 THEN << >>
    ELSE UploadsDue(records, outcome, n - 1) \o
         (IF outcome[n] \in {"uploaded", "put_failed"}
          THEN <<(<<ThumbsOf(records[n].bucket.val), records[n].key.val>>)>>
          ELSE << >>)

\* C14: the uploads attempted are, in order, exactly one per record that
\* got through property extraction, download and thumbnail creation, each
\* to the bucket <original bucket>-thumbs under the record's own key; a
\* record gets that far only if it is an object creation with a non-empty
\* bucket name and key, and then always unless download or thumbnail
\* creation failed.
C14_UploadsToThumbsBucket ==
    (th.pc # "idle") =>
        /\ th.puts = UploadsDue(th.records, th.outcome, Len(th.outcome))
        /\ \A k \in DOMAIN th.outcome :
              /\ th.outcome[k] \in {"uploaded", "put_failed"} =>
                    Eligible(th.records[k])
              /\ (Eligible(th.records[k])
                    /\ th.outcome[k] \notin {"get_failed", "thumb_failed"}) =>
                    th.outcome[k] \in {"uploaded", "put_failed"}

\* Of two records of different buckets the first failed to download and
\* the second was uploaded to its own thumbs bucket.
C14_Witness ==
    /\ th.pc = "done"
    /\ Len(th.records) = 2
    /\ th.records[1].bucket = SomeStr("b1")
    /\ th.outcome = <<"get_failed", "uploaded">>
    /\ th.puts = <<(<<"b2-thumbs", "k1">>)>>

\* The downloads due for the first n records.
RECURSIVE DownloadsDue(_, _)
DownloadsDue(records, n) ==
    IF n = 0 THEN << >>
    ELSE DownloadsDue(records, n - 1) \o
         (IF Eligible(records[n])
          THEN <<(<<records[n].bucket.val, records[n].key.val>>)>>
          ELSE << >>)

\* C20: the records are taken in order, one outcome each; a failure of a
\* step ends that record only (no later step of it is taken) and the next
\* record is still worked on; the handler returns Ok after the last record
\* however many records failed, and never an error.
C20_FailuresIsolated ==
    (th.pc # "idle") =>
        /\ th.result # "Err"
        /\ Len(th.outcome) = th.idx
        /\ th.idx <= Len(th.records)
        /\ th.pc = "done" <=> th.result = "Ok"
        /\ th.pc = "done" =>
              /\ th.idx = Len(th.records)
              /\ th.gets = DownloadsDue(th.records, Len(th.records))
        /\ \A k \in DOMAIN th.outcome :
              th.outcome[k] = "skipped" <=> ~Eligible(th.records[k])
        /\ Len(th.puts) =
              Cardinality({k \in DOMAIN th.outcome :
                              th.outcome[k] \in {"uploaded", "put_failed"}})

\* The first record failed at thumbnail creation, the second at upload;
\* the handler returned Ok.
C20_Witness ==
    /\ th.pc = "done" /\ th.result = "Ok"
    /\ th.outcome = <<"thumb_failed", "put_failed">>
    /\ Len(th.gets) = 2 /\ Len(th.puts) = 1

\* The future of invocation i is resumed in this step.
Resumed(i) ==
    /\ inv[i].state \in {"Request", "Response"}
    /\ inv'[i] # inv[i]
    /\ inv'[i].state # "Dropped"

\* What this step adds to the log of invocation i.
Added(i) == SubSeq(inv'[i].log, Len(inv[i].log) + 1, Len(inv'[i].log))

\* C15 as stated: a resumption advances exactly one of the two inner
\* units, never both.
C15_OneUnitPerResumption ==
    [][\A i \in Invocations :
          Resumed(i) =>
              Count(Added(i), "hpoll") + Count(Added(i), "cpoll") = 1]_vars

\* C15: a resumption advances the inner unit of the variant the future is
\* in, once, and the variant changes exactly when the handler completes
\* with a value; in that resumption, and only in that one, the conversion
\* is advanced too, once.  A completed conversion completes the future.
C15_UnitOfStateAdvanced ==
    [][\A i \in Invocations :
          Resumed(i) =>
              /\ SubSeq(inv'[i].log, 1, Len(inv[i].log)) = inv[i].log
              /\ Count(Added(i), "hpoll") =
                    (IF inv[i].state = "Request" THEN 1 ELSE 0)
              /\ Count(Added(i), "cpoll") =
                    (IF inv[i].state = "Response" \/ inv'[i].hfut = "ok"
                     THEN 1 ELSE 0)
              /\ inv'[i].state # inv[i].state <=>
                    (inv[i].state = "Request" /\ inv'[i].hfut = "ok")
              /\ inv'[i].cfut = "done" <=> Replied(inv'[i])
              /\ inv'[i].hfut = "err" <=> Failed(inv'[i])]_vars

\* The first resumption found the handler ready with a value and the
\* conversion pending: both were polled in it.
C15_Witness ==
    \E i \in Invocations :
        /\ inv[i].log = <<"normalize", "attach", "invoke", "hpoll", "convert", "cpoll">>
        /\ inv[i].state = "Response"
        /\ inv[i].out = PollPending

\* C16: the future starts in the Request variant; it becomes the Response
\* variant only in a resumption of the Request variant in which the
\* handler completed with a value, and then holds the same tag and the
\* conversion of that value; the Response variant never becomes the
\* Request variant again.
C16_ForwardOnly ==
    /\ [](\A i \in Invocations :
            /\ inv[i].state = "Response" =>
                  /\ inv[i].hfut = "ok"
                  /\ inv[i].hval \in Values /\ inv[i].cval = inv[i].hval
                  /\ inv[i].origin = inv[i].envelope.shape
            /\ inv[i].state = "Request" => ~Has(inv[i], "convert"))
    /\ [][\A i \in Invocations :
            /\ (inv[i].status = "idle" /\ inv'[i].status = "called") =>
                  inv'[i].state = "Request"
            /\ inv'[i].state = "Request" => inv[i].state \in {"None", "Request"}
            /\ inv[i].state = "Response" =>
                  inv'[i].state \in {"Response", "Dropped"}
            /\ (inv[i].state # "Response" /\ inv'[i].state = "Response") =>
                  /\ inv[i].state = "Request"
                  /\ inv[i].hfut = "pending" /\ inv'[i].hfut = "ok"
                  /\ inv'[i].origin = inv[i].origin
                  /\ Count(Added(i), "hpoll") = 1
                  /\ Count(Added(i), "convert") = 1]_vars

\* A future that was pending in the Request variant, then pending in the
\* Response variant, then completed.
C16_Witness ==
    \E i \in Invocations :
        /\ inv[i].state = "Response" /\ inv[i].cfut = "done"
        /\ Count(inv[i].log, "hpoll") = 2
        /\ Count(inv[i].log, "cpoll") = 2
        /\ Replied(inv[i])

\* The inner unit of the variant the future is in is still incomplete
\* after this step.
StillPending(i) ==
    \/ inv[i].state = "Request" /\ inv'[i].hfut = "pending"
    \/ inv[i].state = "Response" /\ inv'[i].cfut = "pending"

\* C17: a resumption that leaves the current inner unit incomplete returns
\* Pending; the variant, the tag, the handler's future and the conversion
\* are what they were, there is no reply and no error, and from_response
\* is not applied.
C17_PendingChangesNothing ==
    [][\A i \in Invocations :
          (Resumed(i) /\ StillPending(i)) =>
              /\ inv'[i].out = PollPending
              /\ inv'[i].state = inv[i].state
              /\ inv'[i].origin = inv[i].origin
              /\ inv'[i].hfut = inv[i].hfut /\ inv'[i].hval = inv[i].hval
              /\ inv'[i].cfut = inv[i].cfut /\ inv'[i].cval = inv[i].cval
              /\ inv'[i].request = inv[i].request
              /\ inv'[i].dtag = inv[i].dtag /\ inv'[i].dctx = inv[i].dctx
              /\ Count(Added(i), "denorm") = 0
              /\ Count(Added(i), "convert") = 0
              /\ inv'[i].failure = inv[i].failure]_vars

\* A future that was pending once in the Request variant and, after the
\* change of variant, once more in the Response variant.
C17_Witness ==
    \E i \in Invocations :
        /\ inv[i].state = "Response" /\ inv[i].cfut = "pending"
        /\ inv[i].out = PollPending
        /\ Count(inv[i].log, "hpoll") = 2
        /\ Count(inv[i].log, "cpoll") = 2
        /\ inv[i].origin = inv[i].envelope.shape

\* C18 as stated: whatever resumptions are issued, also after Ready, a
\* completed handler future and a completed conversion are never polled
\* again and from_response is applied at most once.
C18_NeverAdvancedAgain ==
    [][\A i \in Invocations :
          /\ inv[i].hfut \in {"ok", "err"} => Count(Added(i), "hpoll") = 0
          /\ inv[i].cfut = "done" => Count(Added(i), "cpoll") = 0
          /\ Count(inv'[i].log, "denorm") <= 1]_vars

\* C18: up to and including the resumption that returns Ready, a completed
\* handler future and a completed conversion are not polled again and
\* from_response is applied at most once.  The future is not fused: the
\* first resumption after Ready polls the completed inner future of the
\* variant it completed in (the handler's after an error, the conversion
\* after a reply), and from_response is applied again if and only if that
\* conversion answers Ready again.
C18_UntilCompletion ==
    [][\A i \in Invocations :
          /\ ~Has(inv'[i], "repoll") =>
                /\ inv[i].hfut \in {"ok", "err"} => Count(Added(i), "hpoll") = 0
                /\ inv[i].cfut = "done" => Count(Added(i), "cpoll") = 0
                /\ Count(inv'[i].log, "denorm") <= 1
          /\ (Has(inv'[i], "repoll") /\ ~Has(inv[i], "repoll")) =>
                /\ inv[i].out.kind = "Ready"
                /\ inv[i].state = "Request" =>
                      inv[i].hfut = "err" /\ Count(Added(i), "hpoll") = 1
                /\ inv[i].state = "Response" =>
                      /\ inv[i].cfut = "done"
                      /\ Count(Added(i), "hpoll") = 0
                      /\ Count(Added(i), "cpoll") = 1
                      /\ Count(Added(i), "denorm") = 1 <=> Replied(inv'[i])
                      /\ Count(inv'[i].log, "denorm") = 2 <=> Replied(inv'[i])]_vars

\* A future was resumed after its reply, its conversion was polled again
\* and it replied once more.
C18_Witness ==
    \E i \in Invocations :
        /\ Has(inv[i], "repoll")
        /\ Count(inv[i].log, "denorm") = 2
        /\ inv[i].log[Len(inv[i].log) - 2] = "repoll"
        /\ Replied(inv[i])

\* The future of invocation i completed as its handler did: with the
\* reply built from the handler's value, or with the handler's error.
CompletedAsHandler(i) ==
    /\ inv[i].out.kind = "Ready"
    /\ \/ /\ inv[i].hfut = "ok"
          /\ inv[i].out = ReadyOk(from_response(inv[i].envelope.shape,
                                                IntoResponse(inv[i].hval)))
       \/ /\ inv[i].hfut = "err"
          /\ inv[i].out = ReadyErr(inv[i].hval)

\* C19: with a driver that keeps resuming, and inner futures that complete
\* after finitely many polls, every future the adapter returned eventually
\* completes, with a reply when the handler succeeded and with the
\* handler's error when it failed.
C19_EventuallyCompletes ==
    \A i \in Invocations :
        (inv[i].status = "called") ~> CompletedAsHandler(i)

\* Both futures completed, one with a reply after a pending handler and a
\* pending conversion, the other with the handler's error.
C19_Witness ==
    \E i, j \in Invocations :
        /\ CompletedAsHandler(i) /\ Replied(inv[i])
        /\ Count(inv[i].log, "hpoll") = 2 /\ Count(inv[i].log, "cpoll") = 3
        /\ CompletedAsHandler(j) /\ Failed(inv[j])

====
